---- MODULE Spec2Model ----
(***************************************************************************)
(* Model of the youtube-summarizer package: the URL validator, the         *)
(* transcript extractor with its file cache, the Gemini summarizer, the    *)
(* summary file handler and the YouTubeSummarizer facade.                  *)
(*                                                                         *)
(* The variable `call` holds the record of the public call that ran last   *)
(* (or, for get_transcript and for concurrent requests, that is running),  *)
(* the other variables are the two directories and the clock.              *)
(*                                                                         *)
(* Specifications: Spec (facade, file handler, summarizer), SpecTranscript *)
(* (get_transcript), SpecCache (the two cache methods), SpecUrl (the URL   *)
(* validator), SpecWeb (POST /api/summarize) and SpecConcurrent (two       *)
(* summarize_video calls at the same time).                                *)
(***************************************************************************)
EXTENDS Integers, Sequences, FiniteSets, TLC

VARIABLES clock, summaryFiles, transcriptCache, call

vars == <<clock, summaryFiles, transcriptCache, call>>

None == "None"

\* an Optional value that is not a string: None is the empty sequence
Absent == << >>
Some(x) == << x >>

(***************************************************************************)
(* Bounds of the model.                                                    *)
(***************************************************************************)
MaxClock == 1
MaxFiles == 1

\* video identifiers are strings too: sequences of atoms
VideoIds == {<<"a">>, <<"b">>}
Languages == {"ru", "en"}
Texts == {"", "t1"}
Summaries == {"s1", "s2"}
Metadatas == {None, "m1"}
MaxTokensInputs == {Absent, Some(-1), Some(0), Some(1)}

(***************************************************************************)
(* References.  A reference is a string, modelled as a sequence of atoms:  *)
(* each atom is a piece of text that the patterns treat as a unit.         *)
(***************************************************************************)
Refs ==
    { <<"https://", "www.", "youtube.com", "/watch", "?", "v=", "a">>,
      <<"youtube.com", "/watch", "?", "v=", "a", "&", "t=1">>,
      <<"https://", "youtube.com", "/embed/", "b">>,
      <<"youtu.be", "/", "a">>,
      <<"http://", "www.", "youtube.com", "/v/", "b">>,
      <<"https://", "www.", "youtube.com", "/watch", "?", "t=1", "&", "v=", "a">>,
      <<"https://", "www.", "youtube.com">>,
      <<"https://", "www.", "youtube.com", "/playlist", "?", "list=1">>,
      <<"https://", "www.", "google.com">>,
      <<"not a url">>,
      << >> }

\* the references summarize_video is called with
WatchA == <<"https://", "www.", "youtube.com", "/watch", "?", "v=", "a">>
ShortB == <<"youtu.be", "/", "b">>
PlaylistOnly == <<"https://", "www.", "youtube.com", "/playlist", "?", "list=1">>
FacadeRefs == {WatchA, ShortB, PlaylistOnly}

\* atoms whose first character is "/" or "?" (they end a [^/?]+ group)
SlashOrQuery == {"/", "?", "/watch", "/playlist", "/embed/", "/v/"}
\* atoms whose first character is "&" (they end a [^&]+ group)
Ampersand == {"&"}

\* URL_PATTERNS: the literal part each pattern needs before its group, and
\* the atoms the group of the pattern cannot contain.  The optional prefix
\* (?:https?://)?(?:www\.)? matches the empty string, so under re.search it
\* constrains nothing.
URL_PATTERNS ==
    << [lit |-> <<"youtube.com", "/watch", "?", "v=">>, stop |-> Ampersand],
       [lit |-> <<"youtube.com", "/embed/">>, stop |-> SlashOrQuery],
       [lit |-> <<"youtu.be", "/">>, stop |-> SlashOrQuery],
       [lit |-> <<"youtube.com", "/v/">>, stop |-> SlashOrQuery] >>

\* positions where the literal of a pattern is followed by a group atom
MatchStarts(url, p) ==
    { i \in 1..Len(url) :
        /\ i + Len(p.lit) <= Len(url)
        /\ SubSeq(url, i, i + Len(p.lit) - 1) = p.lit
        /\ url[i + Len(p.lit)] \notin p.stop }

Min(S) == CHOOSE x \in S : \A y \in S : x <= y

\* a group that runs to the end of the reference, like (.+)
GroupEnd_rest(url, from, stop) == Len(url)

\* the longest run of atoms outside `stop` that starts at position from
GroupEnd(url, from, stop) ==
    LET ends == { j \in from..Len(url) :
                    /\ \A k \in from..j : url[k] \notin stop
                    /\ (j = Len(url) \/ url[j + 1] \in stop) }
    IN Min(ends)

\* pattern.search(url): group 1 of the leftmost match, or Absent
PatternSearch(url, p) ==
    IF MatchStarts(url, p) = {} THEN Absent
    ELSE LET from == Min(MatchStarts(url, p)) + Len(p.lit)
         IN SubSeq(url, from, GroupEnd(url, from, p.stop))

\* urlparse(url).netloc, for the schemes the references use
Netloc(url) ==
    IF Len(url) >= 1 /\ url[1] \in {"http://", "https://"}
    THEN LET rest == SubSeq(url, 2, Len(url))
             stops == { j \in 1..Len(rest) : rest[j] \in SlashOrQuery }
         IN IF stops = {} THEN rest ELSE SubSeq(rest, 1, Min(stops) - 1)
    ELSE << >>

\* parse_qs(urlparse(url).query)["v"][0], or Absent when there is no v key
QueryV(url) ==
    LET qs == { j \in 1..Len(url) : url[j] = "?" }
    IN IF qs = {} THEN Absent
       ELSE LET q == Min(qs)
                keys == { j \in (q + 1)..Len(url) :
                            /\ url[j] = "v="
                            /\ (j = q + 1 \/ url[j - 1] = "&")
                            /\ j < Len(url)
                            /\ url[j + 1] \notin Ampersand }
            IN IF keys = {} THEN Absent
               ELSE SubSeq(url, Min(keys) + 1,
                           GroupEnd(url, Min(keys) + 1, Ampersand))

RECURSIVE FirstPattern(_, _)
FirstPattern(url, n) ==
    IF n > Len(URL_PATTERNS) THEN Absent
    ELSE IF PatternSearch(url, URL_PATTERNS[n]) # Absent
         THEN PatternSearch(url, URL_PATTERNS[n])
         ELSE FirstPattern(url, n + 1)

extract_video_id(url) ==
    IF FirstPattern(url, 1) # Absent THEN FirstPattern(url, 1)
    ELSE IF Netloc(url) \in {<<"www.", "youtube.com">>, <<"youtube.com">>}
              /\ QueryV(url) # Absent
         THEN QueryV(url)
         ELSE Absent

is_valid_url(url) == extract_video_id(url) # Absent

(***************************************************************************)
(* Exceptions and results.                                                 *)
(***************************************************************************)
Raise(exc, msg) == [kind |-> "raise", exc |-> exc, msg |-> msg]
Return(value) == [kind |-> "return", value |-> value]

\* YouTubeURLValidator.validate_url
validate_url(url) ==
    IF extract_video_id(url) = Absent
    THEN Raise("ValueError", <<"Invalid YouTube URL: ">> \o url)
    ELSE Return(extract_video_id(url))

(***************************************************************************)
(* The references the validator is called with (specification SpecUrl):    *)
(* the four supported shapes with each scheme, with and without "www.",    *)
(* with and without query parameters after the identifier, the references  *)
(* of the tests, and URLs of other hosts.                                  *)
(***************************************************************************)
Schemes == {<< >>, <<"http://">>, <<"https://">>}
Www == {<< >>, <<"www.">>}
UrlIds == VideoIds \cup {<<"a", "-", "b">>}

\* each shape: the text up to the identifier and the character that starts
\* the query parameters that follow the identifier
Shapes ==
    { [name |-> "watch", upto |-> <<"youtube.com", "/watch", "?", "v=">>, next |-> "&"],
      [name |-> "embed", upto |-> <<"youtube.com", "/embed/">>, next |-> "?"],
      [name |-> "short", upto |-> <<"youtu.be", "/">>, next |-> "?"],
      [name |-> "old", upto |-> <<"youtube.com", "/v/">>, next |-> "?"] }

\* no parameter, one parameter, two parameters after the identifier
Trailing(shape) ==
    { << >>, <<shape.next, "t=1">>, <<shape.next, "list=1", "&", "t=1">> }

ShapedUrl(parts) ==
    parts.scheme \o parts.www \o parts.shape.upto \o parts.id \o parts.trailing

ShapedParts ==
    { p \in [scheme : Schemes, www : Www, shape : Shapes, id : UrlIds,
             trailing : UNION { Trailing(s) : s \in Shapes }] :
        p.trailing \in Trailing(p.shape) }

\* URLs of hosts that are not YouTube
ForeignHostRefs ==
    { <<"https://", "www.", "google.com", "/watch", "?", "v=", "a">>,
      <<"https://", "not", "youtube.com", "/watch", "?", "v=", "a">>,
      <<"https://", "www.", "google.com", "/", "youtu.be", "/", "a">>,
      <<"https://", "www.", "google.com", "/search", "?", "q=", "youtube.com", "/embed/", "b">> }

\* calls run one at a time: a call starts when no call is running
Idle == call.pc = "done"

\* the validator called the way its callers and tests call it: the three
\* methods on one reference
validate_reference ==
    /\ Idle
    /\ \/ \E parts \in ShapedParts :
            call' = [op |-> "validate_url", pc |-> "done",
                     video_url |-> ShapedUrl(parts), parts |-> Some(parts),
                     extracted |-> extract_video_id(ShapedUrl(parts)),
                     valid |-> is_valid_url(ShapedUrl(parts)),
                     outcome |-> validate_url(ShapedUrl(parts))]
       \/ \E url \in Refs \cup ForeignHostRefs :
            call' = [op |-> "validate_url", pc |-> "done",
                     video_url |-> url, parts |-> Absent,
                     extracted |-> extract_video_id(url),
                     valid |-> is_valid_url(url),
                     outcome |-> validate_url(url)]
    /\ UNCHANGED <<clock, summaryFiles, transcriptCache>>

(***************************************************************************)
(* FileHandler.  A summary file is named summary_<video_id>_<timestamp>    *)
(* and an extension; the timestamp has a resolution of one second, which   *)
(* is one tick of `clock`.                                                 *)
(***************************************************************************)
FileName(video_id, timestamp, ext) ==
    [video_id |-> video_id, timestamp |-> timestamp, ext |-> ext]

\* the markdown document save_summary writes
MarkdownContent(video_id, summary, metadata, timestamp) ==
    << "# Summary for Video ", video_id, "## Summary", summary, "## Metadata" >>
    \o (IF metadata # None THEN << "- **key**: ", metadata >> ELSE << >>)
    \o << "Generated on: ", timestamp >>

\* the name save_summary builds for a file written now
SummaryFileName(video_id, now) == FileName(video_id, now, "md")

\* the extension get_summary_path looks for
SummaryGlobExt == "txt"

\* output_dir.glob("summary_<video_id>_*.<ext>")
Glob(files, video_id) ==
    { n \in DOMAIN files : n.video_id = video_id /\ n.ext = SummaryGlobExt }

\* the outcomes of FileHandler._validate_path and of the write that follows
IoOutcomes == {"ok", "ValueError", "PermissionError", "IOError"}

\* FileHandler.save_summary(video_id, summary, metadata)
save_summary ==
    /\ Idle
    /\ \E video_id \in VideoIds, summary \in Summaries,
          metadata \in Metadatas, io \in IoOutcomes :
         LET name == SummaryFileName(video_id, clock) IN
         /\ name \in DOMAIN summaryFiles \/ Cardinality(DOMAIN summaryFiles) < MaxFiles
         /\ IF io = "ok"
            THEN /\ summaryFiles' =
                      [n \in DOMAIN summaryFiles \cup {name} |->
                          IF n = name
                          THEN MarkdownContent(video_id, summary, metadata, clock)
                          ELSE summaryFiles[n]]
                 /\ call' = [op |-> "save_summary", pc |-> "done", video_id |-> video_id,
                             summary |-> summary, metadata |-> metadata,
                             outcome |-> Return(name)]
            ELSE /\ UNCHANGED summaryFiles
                 /\ call' = [op |-> "save_summary", pc |-> "done", video_id |-> video_id,
                             summary |-> summary, metadata |-> metadata,
                             outcome |-> Raise(io, <<"Failed to save summary">>)]
    /\ UNCHANGED <<clock, transcriptCache>>

\* max(files, key=st_mtime): a file written in a later second is newer
LatestFiles(files, matched) ==
    { n \in matched : \A m \in matched : m.timestamp <= n.timestamp }

\* FileHandler.get_summary_path(video_id)
get_summary_path ==
    /\ Idle
    /\ \E video_id \in VideoIds :
         LET matched == Glob(summaryFiles, video_id) IN
         IF matched = {}
         THEN call' = [op |-> "get_summary_path", pc |-> "done", video_id |-> video_id,
                       outcome |-> Return(Absent)]
         ELSE \E latest \in LatestFiles(summaryFiles, matched) :
                call' = [op |-> "get_summary_path", pc |-> "done", video_id |-> video_id,
                         outcome |-> Return(Some(latest))]
    /\ UNCHANGED <<clock, summaryFiles, transcriptCache>>

\* the wall clock moves to the next second
Tick ==
    /\ clock < MaxClock
    /\ clock' = clock + 1
    /\ UNCHANGED <<summaryFiles, transcriptCache, call>>

(***************************************************************************)
(* GeminiSummarizer.summarize(transcript, language, max_tokens).  The      *)
(* backend answers with a text, with an empty text or with an error.       *)
(***************************************************************************)
BackendAnswers == Summaries \cup {"", "error"}
SummarizeMaxTokens == {Absent, Some(0), Some(1)}

\* _create_prompt: the template with the language and the transcript
create_prompt(transcript, language) ==
    << "Please provide a comprehensive summary", "Output in ", language,
       " language:", transcript, "Summary:" >>

\* GenerateContentConfig(..., max_output_tokens=max_tokens, ...)
GenerationConfig(max_tokens) ==
    [temperature |-> "0.7", top_p |-> "0.8", top_k |-> 40,
     max_output_tokens |-> max_tokens]

SummarizeOutcome(answer) ==
    IF answer = "error" THEN Raise("Exception", <<"backend error">>)
    ELSE IF answer = ""
         THEN Raise("ValueError", <<"Gemini API returned an empty response">>)
         ELSE Return(answer)

summarize ==
    /\ Idle
    /\ \E transcript \in Texts, language \in Languages,
          max_tokens \in SummarizeMaxTokens, answer \in BackendAnswers :
         call' = [op |-> "summarize", pc |-> "done",
                  max_tokens |-> max_tokens,
                  request |-> [contents |-> create_prompt(transcript, language),
                               config |-> GenerationConfig(max_tokens)],
                  outcome |-> SummarizeOutcome(answer)]
    /\ UNCHANGED <<clock, summaryFiles, transcriptCache>>

(***************************************************************************)
(* YouTubeSummarizer.summarize_video.                                      *)
(***************************************************************************)
\* _validate_inputs without the test of max_tokens
validate_inputs_url_only(video_url, max_tokens) ==
    IF ~is_valid_url(video_url)
    THEN Some(Raise("ValueError", <<"Invalid YouTube URL">>))
    ELSE Absent

\* YouTubeSummarizer._validate_inputs: the error it raises, or Absent
validate_inputs(video_url, max_tokens) ==
    IF ~is_valid_url(video_url)
    THEN Some(Raise("ValueError", <<"Invalid YouTube URL">>))
    ELSE IF max_tokens # Absent /\ max_tokens[1] <= 0
         THEN Some(Raise("ValueError", <<"max_tokens must be positive">>))
         ELSE Absent

\* get_transcript(self, video_id, language): both parameters are required
GetTranscriptRequired == 2
\* self.transcript_extractor.get_transcript(video_id): one argument is passed
GetTranscriptPassed == 1

\* Python binds the arguments of a call to the parameters of the callee
\* before the body runs, and raises TypeError when they do not fit
CallBinds(required, passed) == passed = required

\* the steps summarize_video takes, in order, and how the call ends.  The
\* call of get_transcript at the end of the third step does not bind, so
\* the statements after it are never executed.
SummarizeVideoSteps(video_url, max_tokens) ==
    IF validate_inputs(video_url, max_tokens) # Absent
    THEN [events |-> <<"validate_inputs">>,
          outcome |-> validate_inputs(video_url, max_tokens)[1]]
    ELSE IF extract_video_id(video_url) = Absent
         THEN [events |-> <<"validate_inputs", "extract_video_id">>,
               outcome |-> Raise("ValueError", <<"Invalid YouTube URL">>)]
         ELSE CASE ~CallBinds(GetTranscriptRequired, GetTranscriptPassed) ->
                [events |-> <<"validate_inputs", "extract_video_id">>,
                 outcome |-> Raise("TypeError",
                    <<"get_transcript() missing 1 required positional argument: 'language'">>)]

\* how the transcript provider and the generation backend would answer
\* during one call of summarize_video, and how the write of the transcript
\* cache file and of the summary file would end
Environments ==
    [source : {"ok", "error"}, backend : {"ok", "error"},
     cache : {"ok"}, output : {"ok"}]

\* the two services answer and one of the two writes fails
FailingWrites ==
    { [source |-> "ok", backend |-> "ok", cache |-> "write fails", output |-> "ok"],
      [source |-> "ok", backend |-> "ok", cache |-> "ok", output |-> "IOError"] }

\* SummarizeVideoSteps for each input of the model
SummarizeVideoTable ==
    [in \in FacadeRefs \X MaxTokensInputs |-> SummarizeVideoSteps(in[1], in[2])]

\* the calls of summarize_video the model makes: every reference and bound
\* with the default options, every combination of the options and of the
\* answers of the two services for a reference that is valid, and a failing
\* write with and without the transcript in the result
FacadeInputs ==
    [video_url : FacadeRefs, max_tokens : MaxTokensInputs,
     save_to_file : BOOLEAN, include_transcript : {FALSE},
     allow_summary_failure : {FALSE},
     env : {[source |-> "ok", backend |-> "ok", cache |-> "ok", output |-> "ok"]}]
    \cup
    [video_url : {WatchA}, max_tokens : {Absent},
     save_to_file : BOOLEAN, include_transcript : BOOLEAN,
     allow_summary_failure : BOOLEAN, env : Environments]
    \cup
    [video_url : {WatchA}, max_tokens : {Absent},
     save_to_file : {TRUE}, include_transcript : BOOLEAN,
     allow_summary_failure : {FALSE}, env : FailingWrites]

\* the arguments of a call of summarize_video
InputsOf(c) ==
    [video_url |-> c.video_url, max_tokens |-> c.max_tokens,
     save_to_file |-> c.save_to_file,
     include_transcript |-> c.include_transcript,
     allow_summary_failure |-> c.allow_summary_failure, env |-> c.env]

\* the summary files that differ between two states of the directory
Written(before, after) ==
    { n \in DOMAIN after : n \notin DOMAIN before \/ after[n] # before[n] }

\* The record of a call keeps, besides the arguments, the steps taken, the
\* files the call wrote and how it ended; `repeat` holds the end and the
\* files of the call before it when that was the same call of summarize_video.
summarize_video ==
    /\ Idle
    /\ UNCHANGED <<clock, summaryFiles, transcriptCache>>
    /\ \E in \in FacadeInputs :
         LET steps == SummarizeVideoTable[<<in.video_url, in.max_tokens>>] IN
         call' = [op |-> "summarize_video", pc |-> "done",
                  video_url |-> in.video_url,
                  max_tokens |-> in.max_tokens,
                  save_to_file |-> in.save_to_file,
                  include_transcript |-> in.include_transcript,
                  allow_summary_failure |-> in.allow_summary_failure,
                  env |-> in.env,
                  events |-> steps.events,
                  wrote |-> Written(summaryFiles, summaryFiles'),
                  outcome |-> steps.outcome,
                  repeat |-> IF call.op = "summarize_video"
                             THEN IF InputsOf(call) = in
                                  THEN Some([outcome |-> call.outcome,
                                             wrote |-> call.wrote])
                                  ELSE Absent
                             ELSE Absent]

\* a cache path that leaves the language out
get_cache_path_by_id(video_id, language) ==
    <<"cache/transcripts", "/">> \o video_id \o <<".json">>

\* _get_cache_path: cache_dir/<video_id>_<language>.json
get_cache_path(video_id, language) ==
    <<"cache/transcripts", "/">> \o video_id \o <<"_", language, ".json">>

CachePaths == { get_cache_path(v, l) : v \in VideoIds, l \in Languages }

(***************************************************************************)
(* The state after YouTubeSummarizer is constructed: both directories      *)
(* exist, nothing has been called.                                         *)
(***************************************************************************)
Init ==
    /\ clock = 0
    /\ summaryFiles = << >>
    /\ transcriptCache = [path \in CachePaths |-> Absent]
    /\ call = [op |-> "none", pc |-> "done"]

Next ==
    \/ summarize_video
    \/ save_summary
    \/ get_summary_path
    \/ summarize
    \/ Tick

Spec == Init /\ [][Next]_vars

(***************************************************************************)
(* YouTubeTranscriptExtractor.  The transcript cache holds one JSON file   *)
(* per (video_id, language); transcriptCache maps the pair to the document *)
(* in the file, or to Absent when there is no file.                        *)
(***************************************************************************)
RetryTimes == 5

\* find_transcript(["ru", "en"]) when no language is requested
DefaultLanguages == <<"ru", "en">>

\* the object json.dump writes
CacheDocument(video_id, language, transcript) ==
    [video_id |-> video_id, language |-> language, transcript |-> transcript]

\* A cache file is what its bytes are to the reader: a JSON object (doc is
\* the object when it has the key "transcript", Absent when it has not), a
\* JSON array, or bytes that are no JSON document: an empty file, a document
\* cut short between two characters or inside a character, other text; and
\* a file that exists and cannot be opened.
File(kind, doc) == [kind |-> kind, doc |-> doc]
NotJson == {"empty", "partial", "not_json"}
DamagedFiles ==
    { File(k, Absent) :
        k \in NotJson \cup {"cut_in_char", "array", "object", "unreadable"} }

\* _load_from_cache: data["transcript"] of the file, None without a file and
\* for json.JSONDecodeError and KeyError; any other error leaves the method
load_from_cache(cache, video_id, language) ==
    LET path == get_cache_path(video_id, language) IN
    IF cache[path] = Absent THEN Return(None)
    ELSE LET file == cache[path][1] IN
         CASE file.kind = "unreadable" ->
                Raise("PermissionError", <<"Permission denied">>)
           [] file.kind = "cut_in_char" ->
                Raise("UnicodeDecodeError", <<"unexpected end of data">>)
           [] file.kind \in NotJson -> Return(None)
           [] file.kind = "array" ->
                Raise("TypeError", <<"list indices must be integers or slices, not str">>)
           [] file.kind = "object" ->
                IF file.doc = Absent THEN Return(None)
                ELSE Return(file.doc[1].transcript)

\* how the write of a cache file ends: done, open() fails, or the write fails
\* after open() has truncated the file
SaveOutcomes == {"ok", "open fails", "write fails"}

\* _save_to_cache: the write is best effort, a failure is logged and dropped
save_to_cache(cache, video_id, language, transcript, io) ==
    LET path == get_cache_path(video_id, language) IN
    CASE io = "ok" ->
           [cache EXCEPT ![path] =
               Some(File("object",
                         Some(CacheDocument(video_id, language, transcript))))]
      [] io = "open fails" -> cache
      [] io = "write fails" -> [cache EXCEPT ![path] = Some(File("partial", Absent))]

\* the errors the provider raises
TranscriptsDisabled == Raise("TranscriptsDisabled", <<"disabled">>)
NoTranscriptFound == Raise("NoTranscriptFound", <<"not found">>)
ConnectionError == Raise("ConnectionError", <<"connection reset">>)
ProviderErrors == {TranscriptsDisabled, NoTranscriptFound, ConnectionError}

\* the two kinds of failure the provider reports as permanent
PermanentKinds == {"TranscriptsDisabled", "NoTranscriptFound"}

\* the record of a report of the provider: the kind of the failure and the
\* number of fetch attempts made when it was reported
Report(e, attempts) ==
    IF e.exc \in PermanentKinds THEN Some([exc |-> e.exc, at |-> attempts])
    ELSE Absent

\* the except clauses at the end of get_transcript: the error the caller gets
\* for an error e raised inside the try block
ExceptClauses(e, video_id, language) ==
    IF e.exc = "TranscriptsDisabled"
    THEN Raise("TranscriptsDisabled",
               <<"Transcripts are disabled for video: ">> \o video_id)
    ELSE IF e.exc = "NoTranscriptFound"
         THEN Raise("NoTranscriptFound", video_id \o <<language>>)
         ELSE Raise("Exception", <<"Error fetching transcript: ">> \o e.msg)

\* transcript_list.find_transcript(codes): the first code with a track
RECURSIVE find_transcript(_, _)
find_transcript(tracks, codes) ==
    IF codes = << >> THEN None
    ELSE IF Head(codes) \in tracks THEN Head(codes)
         ELSE find_transcript(tracks, Tail(codes))

Running == [kind |-> "running"]

\* the condition of the cache file for (video_id, language)
FileCondition(cache, video_id, language) ==
    LET path == get_cache_path(video_id, language) IN
    IF cache[path] = Absent THEN "missing"
    ELSE IF cache[path][1].kind = "object"
         THEN IF cache[path][1].doc = Absent THEN "no field" ELSE "document"
         ELSE cache[path][1].kind

\* the video get_transcript is called for; how the cache files of two videos
\* keep apart is the matter of the cache methods (specification SpecCache)
TranscriptVideoIds == {<<"a">>}

\* get_transcript(video_id, language), up to the call of list_transcripts:
\* a cached transcript that is not empty is returned at once
get_transcript ==
    /\ Idle
    /\ \E video_id \in TranscriptVideoIds, language \in Languages \cup {None} :
         LET loaded == IF language # None
                       THEN load_from_cache(transcriptCache, video_id, language)
                       ELSE Return(None)
             failed == loaded.kind = "raise"
             cached == IF failed THEN None ELSE loaded.value
             hit == cached # None /\ cached # ""
         IN call' = [op |-> "get_transcript",
                     pc |-> IF hit \/ failed THEN "done" ELSE "list",
                     video_id |-> video_id,
                     requested |-> language,
                     language |-> language,
                     i |-> 0,
                     attempts |-> 0,
                     first_e |-> Absent,
                     retry_e |-> Absent,
                     fetched |-> Absent,
                     saved |-> "none",
                     permanent |-> Absent,
                     found |-> IF language # None
                               THEN FileCondition(transcriptCache, video_id,
                                                  language)
                               ELSE "not read",
                     loaded |-> loaded,
                     listed |-> FALSE,
                     outcome |-> IF failed
                                 THEN ExceptClauses(loaded, video_id, language)
                                 ELSE IF hit
                                      THEN Return(<<video_id, language, cached>>)
                                      ELSE Running]
    /\ UNCHANGED <<clock, summaryFiles, transcriptCache>>

\* the answers of YouTubeTranscriptApi.list_transcripts
ListAnswers ==
    { [exc |-> e, tracks |-> {}] : e \in {TranscriptsDisabled, ConnectionError} }
    \cup { [exc |-> Absent, tracks |-> t] : t \in SUBSET Languages }

\* list_transcripts and find_transcript; language becomes the language code
\* of the track when none was requested
list_transcripts ==
    /\ call.op = "get_transcript" /\ call.pc = "list"
    /\ \E answer \in ListAnswers :
         LET codes == IF call.language # None THEN <<call.language>>
                      ELSE DefaultLanguages
             track == find_transcript(answer.tracks, codes)
         IN IF answer.exc # Absent
            THEN call' = [call EXCEPT !.pc = "done", !.listed = TRUE,
                            !.permanent = Report(answer.exc, 0),
                            !.outcome = ExceptClauses(answer.exc, call.video_id,
                                                      call.language)]
            ELSE IF track = None
                 THEN call' = [call EXCEPT !.pc = "done", !.listed = TRUE,
                                 !.permanent = Report(NoTranscriptFound, 0),
                                 !.outcome = ExceptClauses(NoTranscriptFound,
                                                call.video_id, call.language)]
                 ELSE call' = [call EXCEPT !.pc = "fetch", !.listed = TRUE,
                                 !.language = IF call.language # None
                                              THEN call.language ELSE track]
    /\ UNCHANGED <<clock, summaryFiles, transcriptCache>>

\* a loop that keeps the error of its first attempt
RaisedByLoop_first(first_e, retry_e) == first_e

\* the error an attempt of the retry loop raises out of the loop
RaisedByLoop(first_e, retry_e) == retry_e

\* a loop that gives up one attempt late
LastAttempt_late(i) == i = RetryTimes

\* whether the loop gives up after the attempt with index i
LastAttempt(i) == i = RetryTimes - 1

\* the answers of transcript.fetch()
FetchAnswers ==
    { [exc |-> e, text |-> ""] : e \in ProviderErrors }
    \cup { [exc |-> Absent, text |-> t] : t \in Texts }

\* one pass of the retry loop: transcript.fetch(), then either the rest of
\* get_transcript (format, save to cache, return), another pass, or the
\* except clauses
fetch ==
    /\ call.op = "get_transcript" /\ call.pc = "fetch"
    /\ \E answer \in FetchAnswers, io \in SaveOutcomes :
         IF answer.exc = Absent
         THEN /\ transcriptCache' =
                   save_to_cache(transcriptCache, call.video_id, call.language,
                                 answer.text, io)
              /\ call' = [call EXCEPT !.pc = "done",
                            !.attempts = call.attempts + 1,
                            !.fetched = Some(answer.text),
                            !.saved = io,
                            !.outcome = Return(<<call.video_id, call.language,
                                                 answer.text>>)]
         ELSE /\ io = "ok"
              /\ UNCHANGED transcriptCache
              /\ LET first == IF call.first_e = Absent THEN Some(answer.exc)
                              ELSE call.first_e
                     reported == IF call.permanent = Absent
                                 THEN Report(answer.exc, call.attempts + 1)
                                 ELSE call.permanent
                 IN IF LastAttempt(call.i)
                    THEN call' = [call EXCEPT !.pc = "done",
                                    !.attempts = call.attempts + 1,
                                    !.first_e = first,
                                    !.retry_e = Some(answer.exc),
                                    !.permanent = reported,
                                    !.outcome = ExceptClauses(
                                        RaisedByLoop(first[1], answer.exc),
                                        call.video_id, call.language)]
                    ELSE call' = [call EXCEPT !.i = call.i + 1,
                                    !.attempts = call.attempts + 1,
                                    !.first_e = first,
                                    !.retry_e = Some(answer.exc),
                                    !.permanent = reported]
    /\ UNCHANGED <<clock, summaryFiles>>

NextTranscript ==
    \/ get_transcript
    \/ list_transcripts
    \/ fetch

\* The state after YouTubeTranscriptExtractor is constructed: the cache
\* directory is kept when it exists (makedirs with exist_ok), so it can hold
\* a file of an earlier run or of another program, in any condition.
InitTranscript ==
    /\ clock = 0
    /\ summaryFiles = << >>
    /\ \E old \in {Absent} \cup { Some(f) : f \in DamagedFiles } :
         transcriptCache =
           [path \in CachePaths |->
              IF path = get_cache_path(<<"a">>, "ru") THEN old ELSE Absent]
    /\ call = [op |-> "none", pc |-> "done"]

SpecTranscript == InitTranscript /\ [][NextTranscript]_vars

NextUrl == validate_reference

SpecUrl == Init /\ [][NextUrl]_vars

(***************************************************************************)
(* Two summarize_video calls for the same reference running at the same    *)
(* time, as two requests of the web front end do (specification            *)
(* SpecConcurrent).  A call takes the steps of SummarizeVideoSteps one at  *)
(* a time and then ends; the steps of the two calls interleave freely and  *)
(* the clock ticks in between.                                             *)
(***************************************************************************)
Requests == {1, 2}

start_requests ==
    /\ Idle
    /\ \E video_url \in FacadeRefs, max_tokens \in MaxTokensInputs,
          save_to_file \in BOOLEAN :
         call' = [op |-> "concurrent", pc |-> "running",
                  video_url |-> video_url, max_tokens |-> max_tokens,
                  save_to_file |-> save_to_file,
                  taken |-> [r \in Requests |-> 0],
                  outcome |-> [r \in Requests |-> Running]]
    /\ UNCHANGED <<clock, summaryFiles, transcriptCache>>

request_step ==
    /\ call.op = "concurrent" /\ call.pc = "running"
    /\ \E r \in Requests :
         LET steps == SummarizeVideoTable[<<call.video_url, call.max_tokens>>]
             taken == [call.taken EXCEPT ![r] = @ + 1]
             outcome == [call.outcome EXCEPT ![r] = steps.outcome]
         IN /\ call.outcome[r] = Running
            /\ IF call.taken[r] < Len(steps.events)
               THEN call' = [call EXCEPT !.taken = taken]
               ELSE call' = [call EXCEPT !.outcome = outcome,
                               !.pc = IF \A q \in Requests : outcome[q] # Running
                                      THEN "done" ELSE "running"]
    /\ UNCHANGED <<clock, summaryFiles, transcriptCache>>

NextConcurrent ==
    \/ start_requests
    \/ request_step
    \/ Tick

SpecConcurrent == Init /\ [][NextConcurrent]_vars

(***************************************************************************)
(* The web front end: POST /api/summarize (specification SpecWeb).         *)
(***************************************************************************)
\* request.get_json(): the JSON document of the body.  null and an array are
\* JSON documents that are no object; an object has the key video_url or
\* has not, and the value can be the empty string.
Bodies ==
    { [kind |-> k, video_url |-> Absent] : k \in {"null", "array", "object"} }
    \cup { [kind |-> "object", video_url |-> Some(url)] :
             url \in Refs \cup ForeignHostRefs }

\* Config.max_tokens: int(os.getenv("MAX_TOKENS") or 1024)
ConfigMaxTokens == {Some(1024), Some(0)}

\* the except clause of the handler
ErrorResponse(e) ==
    [status |-> IF e.exc = "ValueError" THEN 400 ELSE 500,
     payload |-> [error |-> e.msg, status |-> "error"]]

\* the handler of POST /api/summarize
ApiSummarize(body, max_tokens) ==
    IF body.kind # "object"
    THEN ErrorResponse(Raise("AttributeError", <<"object has no attribute 'get'">>))
    ELSE IF body.video_url = Absent \/ body.video_url = Some(<< >>)
         THEN [status |-> 400,
               payload |-> [error |-> <<"Video URL is required">>]]
         ELSE LET steps == SummarizeVideoSteps(body.video_url[1], max_tokens)
              IN IF steps.outcome.kind = "raise"
                 THEN ErrorResponse(steps.outcome)
                 ELSE [status |-> 200, payload |-> steps.outcome.value]

api_summarize ==
    /\ Idle
    /\ \E body \in Bodies, max_tokens \in ConfigMaxTokens,
          env \in Environments \cup FailingWrites :
         call' = [op |-> "api_summarize", pc |-> "done",
                  body |-> body, max_tokens |-> max_tokens, env |-> env,
                  response |-> ApiSummarize(body, max_tokens)]
    /\ UNCHANGED <<clock, summaryFiles, transcriptCache>>

NextWeb == api_summarize

SpecWeb == Init /\ [][NextWeb]_vars

(***************************************************************************)
(* The two cache methods of the extractor called on their own              *)
(* (specification SpecCache).  The record of a call carries `written`: for *)
(* each (video_id, language) the transcript of the last _save_to_cache     *)
(* call for the pair when that call wrote the file, Absent when the last   *)
(* write for the pair broke off or none was made.                          *)
(***************************************************************************)
LastWritten ==
    IF call.op \in {"save_to_cache", "load_from_cache"} THEN call.written
    ELSE [pair \in VideoIds \X Languages |-> Absent]

call_save_to_cache ==
    /\ Idle
    /\ \E video_id \in VideoIds, language \in Languages,
          transcript \in Texts, io \in SaveOutcomes :
         /\ transcriptCache' =
              save_to_cache(transcriptCache, video_id, language, transcript, io)
         /\ call' = [op |-> "save_to_cache", pc |-> "done",
                     video_id |-> video_id, language |-> language,
                     transcript |-> transcript, io |-> io,
                     written |->
                       [LastWritten EXCEPT ![<<video_id, language>>] =
                          CASE io = "ok" -> Some(transcript)
                            [] io = "open fails" -> @
                            [] io = "write fails" -> Absent],
                     outcome |-> Return(None)]
    /\ UNCHANGED <<clock, summaryFiles>>

call_load_from_cache ==
    /\ Idle
    /\ \E video_id \in VideoIds, language \in Languages :
         call' = [op |-> "load_from_cache", pc |-> "done",
                  video_id |-> video_id, language |-> language,
                  found |-> FileCondition(transcriptCache, video_id, language),
                  written |-> LastWritten,
                  outcome |-> load_from_cache(transcriptCache, video_id, language)]
    /\ UNCHANGED <<clock, summaryFiles, transcriptCache>>

NextCache ==
    \/ call_save_to_cache
    \/ call_load_from_cache

SpecCache == InitTranscript /\ [][NextCache]_vars

(***************************************************************************)
(* Properties of summarize_video (specification Spec).                     *)
(***************************************************************************)
Range(seq) == { seq[k] : k \in 1..Len(seq) }

IsRun == call.op = "summarize_video"

\* a call whose reference and max_tokens pass the validation
ValidRun ==
    /\ IsRun
    /\ is_valid_url(call.video_url)
    /\ (call.max_tokens = Absent \/ call.max_tokens[1] > 0)

HealthyEnv ==
    [source |-> "ok", backend |-> "ok", cache |-> "ok", output |-> "ok"]

\* the summary files on disk for a video
PersistedFor(video_id) == { n \in DOMAIN summaryFiles : n.video_id = video_id }

\* the transcript cache files for a video
CachedTranscripts(video_id) ==
    { l \in Languages : transcriptCache[get_cache_path(video_id, l)] # Absent }

\* C1: the second of two identical summarize_video calls with save_to_file
\* (valid reference, provider and backend answering) returns the text the
\* first call returned, writes no file and does not call the summarizer,
\* and a summary file exists from the first call.
C1_Idempotence ==
    (ValidRun /\ call.save_to_file /\ call.env = HealthyEnv
       /\ call.repeat # Absent)
    => /\ call.outcome.kind = "return"
       /\ call.outcome = call.repeat[1].outcome
       /\ call.wrote = {}
       /\ "summarize" \notin Range(call.events)
       /\ PersistedFor(extract_video_id(call.video_url)) # {}

\* C2: a summarize_video call for a video with a persisted summary returns
\* the cached text and calls neither the transcript source nor the
\* summarizer.
C2_CacheShortCircuit ==
    (ValidRun /\ PersistedFor(extract_video_id(call.video_url)) # {})
    => /\ call.outcome.kind = "return"
       /\ \E n \in PersistedFor(extract_video_id(call.video_url)) :
             call.outcome.value \in {summaryFiles[n], summaryFiles[n][4]}
       /\ "get_transcript" \notin Range(call.events)
       /\ "summarize" \notin Range(call.events)

\* C3: a first call for a valid reference, nothing cached, provider and
\* backend answering, save_to_file set: the call resolves the identifier,
\* fetches the transcript, generates the summary, writes one summary file,
\* in this order, and returns the generated summary.
C3_FirstCallSuccess ==
    (ValidRun /\ call.save_to_file /\ call.env = HealthyEnv
       /\ call.repeat = Absent
       /\ PersistedFor(extract_video_id(call.video_url)) \subseteq call.wrote
       /\ CachedTranscripts(extract_video_id(call.video_url)) = {})
    => /\ call.events = <<"validate_inputs", "extract_video_id",
                          "get_transcript", "summarize", "save_summary">>
       /\ call.outcome.kind = "return"
       /\ call.outcome.value \in Summaries
       /\ Cardinality(call.wrote) = 1

C6_TolerateFailure ==
    (ValidRun /\ call.env.source = "ok" /\ call.env.backend = "error"
       /\ PersistedFor(extract_video_id(call.video_url)) = {})
    => IF call.include_transcript /\ call.allow_summary_failure
       THEN /\ call.outcome.kind = "return"
            /\ call.outcome.value.summary = None
            /\ call.outcome.value.summary_error # None
            /\ call.outcome.value.transcript \in Texts
            /\ call.wrote = {}
       ELSE call.outcome.kind = "raise"

\* the errors get_transcript raises
TranscriptErrors == {"TranscriptsDisabled", "NoTranscriptFound", "Exception"}

Finished == call.op = "get_transcript" /\ call.pc = "done"

\* the call fetched the transcript after zero or more failed attempts
FetchedAfterRetries == Finished /\ call.fetched # Absent

\* every attempt of the call failed
EveryAttemptFailed ==
    Finished /\ call.fetched = Absent /\ call.retry_e # Absent

\* C9 as claimed: at most 5 attempts; when an attempt succeeds after fewer
\* than 5 failures, the call returns the transcript of that attempt and the
\* transcript cache holds it.
C9_RetrySuccess ==
    /\ call.op = "get_transcript" => call.attempts <= RetryTimes
    /\ FetchedAfterRetries
       => /\ call.outcome =
               Return(<<call.video_id, call.language, call.fetched[1]>>)
          /\ load_from_cache(transcriptCache, call.video_id, call.language)
               = Return(call.fetched[1])

\* C9 as amended: the same, the cache holding the transcript when the write
\* of the cache file succeeds.
C9_RetrySuccessBestEffort ==
    /\ call.op = "get_transcript" => call.attempts <= RetryTimes
    /\ FetchedAfterRetries
       => /\ call.outcome =
               Return(<<call.video_id, call.language, call.fetched[1]>>)
          /\ call.saved = "ok"
             => load_from_cache(transcriptCache, call.video_id, call.language)
                  = Return(call.fetched[1])

\* four failed attempts, then the fifth succeeded and was cached
C9_Witness ==
    /\ FetchedAfterRetries
    /\ call.attempts = RetryTimes
    /\ call.retry_e # Absent
    /\ call.saved = "ok"
    /\ call.fetched = Some("t1")

\* C10 as claimed: when all 5 attempts fail, the caller receives the error
\* the fifth attempt raised.
C10_LastErrorPropagated ==
    EveryAttemptFailed
    => /\ call.attempts = RetryTimes
       /\ call.outcome = call.retry_e[1]

\* C10 as amended: when all 5 attempts fail, get_transcript stops and the
\* caller receives an error built from the error of the fifth attempt: a
\* new error of the same kind for TranscriptsDisabled and NoTranscriptFound,
\* else an Exception whose message ends with the message of that error.
C10_LastErrorWrapped ==
    EveryAttemptFailed
    => /\ call.attempts = RetryTimes
       /\ call.outcome.kind = "raise"
       /\ IF call.retry_e[1].exc \in {"TranscriptsDisabled", "NoTranscriptFound"}
          THEN call.outcome.exc = call.retry_e[1].exc
          ELSE /\ call.outcome.exc = "Exception"
               /\ call.outcome.msg =
                    <<"Error fetching transcript: ">> \o call.retry_e[1].msg

\* five failures, the first of another kind than the fifth
C10_Witness ==
    /\ EveryAttemptFailed
    /\ call.attempts = RetryTimes
    /\ call.first_e = Some(TranscriptsDisabled)
    /\ call.retry_e = Some(ConnectionError)
    /\ call.outcome.exc = "Exception"

\* C11: once the provider has reported "transcripts disabled" or "no
\* transcript found" (listing, selection or body fetch), get_transcript
\* makes no further fetch attempt and ends with an error of that kind;
\* every other error it ends with is the generic fetch error.
C11_PermanentNotRetried ==
    call.op = "get_transcript"
    => /\ call.permanent # Absent
          => /\ call.attempts = call.permanent[1].at
             /\ Finished => /\ call.outcome.kind = "raise"
                             /\ call.outcome.exc = call.permanent[1].exc
       /\ (Finished /\ call.outcome.kind = "raise" /\ call.permanent = Absent)
          => call.outcome.exc = "Exception"

(***************************************************************************)
(* Properties of the transcript cache (specifications SpecCache and        *)
(* SpecTranscript).                                                        *)
(***************************************************************************)
\* C12: _load_from_cache(id, lang) returns exactly the text of the last
\* _save_to_cache(id, lang, text) that wrote the file, the empty text
\* included, whatever was stored for other (id, lang) pairs in between.
C12_CacheRoundTrip ==
    (call.op = "load_from_cache"
       /\ call.written[<<call.video_id, call.language>>] # Absent)
    => call.outcome = Return(call.written[<<call.video_id, call.language>>][1])

\* the empty text was stored for ("a", "ru"), another text for ("a", "en")
\* and for ("b", "ru"), and the load for ("a", "ru") returned the empty text
C12_Witness ==
    /\ call.op = "load_from_cache"
    /\ call.video_id = <<"a">> /\ call.language = "ru"
    /\ call.written[<< <<"a">>, "ru" >>] = Some("")
    /\ call.written[<< <<"a">>, "en" >>] = Some("t1")
    /\ call.written[<< <<"b">>, "ru" >>] = Some("t1")
    /\ call.outcome = Return("")

\* C13: whatever the condition of the cache file is when it is not a
\* well-formed document (missing, empty, cut short, no JSON, JSON of another
\* shape, no transcript field, unreadable), _load_from_cache returns None
\* without raising and get_transcript goes on to ask the provider.
C13_ReadFailuresAreMisses ==
    (call.op = "get_transcript" /\ call.requested # None
       /\ call.found # "document")
    => /\ call.loaded = Return(None)
       /\ call.pc = "done" => call.listed

(***************************************************************************)
(* Properties of summarize_video when a write fails (specification Spec).  *)
(***************************************************************************)
\* C14: when the provider answers and the write of the transcript cache
\* file fails, the transcript is fetched all the same and summarize_video
\* goes on to call the summarizer; the failed write is not what ends it.
C14_CacheWriteBestEffort ==
    (ValidRun /\ call.env.source = "ok" /\ call.env.cache = "write fails")
    => /\ "get_transcript" \in Range(call.events)
       /\ "summarize" \in Range(call.events)
       /\ call.env.backend = "ok" => call.outcome.kind = "return"

\* C15: when the summary was generated and the write of the summary file
\* fails, summarize_video returns the summary (the bundle that holds it
\* when include_transcript is set) and does not raise.
C15_PersistFailureNonFatal ==
    (ValidRun /\ call.save_to_file /\ call.env.source = "ok"
       /\ call.env.backend = "ok" /\ call.env.output # "ok"
       /\ PersistedFor(extract_video_id(call.video_url)) = {})
    => /\ call.outcome.kind = "return"
       /\ IF call.include_transcript
          THEN call.outcome.value.summary \in Summaries
          ELSE call.outcome.value \in Summaries

(***************************************************************************)
(* Properties of the URL validator (specification SpecUrl).                *)
(***************************************************************************)
\* C17: for a reference of one of the four supported shapes,
\* extract_video_id returns the identifier the reference was built from,
\* whatever the scheme (http, https, none), with or without "www." and with
\* or without query parameters after the identifier; is_valid_url is true
\* and validate_url returns the same identifier.
C17_ShapeInvariant ==
    (call.op = "validate_url" /\ call.parts # Absent)
    => /\ call.extracted = call.parts[1].id
       /\ call.valid
       /\ call.outcome = Return(call.parts[1].id)

\* a short link without scheme, with "www." and two parameters after a
\* three-part identifier
C17_Witness ==
    /\ call.op = "validate_url"
    /\ call.video_url =
         <<"www.", "youtu.be", "/", "a", "-", "b", "?", "list=1", "&", "t=1">>
    /\ call.outcome = Return(<<"a", "-", "b">>)

\* the host of a reference: what follows the scheme, up to the path or query
HostOf(url) ==
    LET rest == IF Len(url) >= 1 /\ url[1] \in {"http://", "https://"}
                THEN SubSeq(url, 2, Len(url)) ELSE url
        stops == { j \in 1..Len(rest) : rest[j] \in SlashOrQuery }
    IN IF stops = {} THEN rest ELSE SubSeq(rest, 1, Min(stops) - 1)

YouTubeHosts ==
    { <<"youtube.com">>, <<"www.", "youtube.com">>,
      <<"youtu.be">>, <<"www.", "youtu.be">> }

\* a reference without a video: the empty string, free text, a URL of
\* another host, the YouTube home page, a playlist-only URL
NoIdentifier(url) ==
    \/ HostOf(url) \notin YouTubeHosts
    \/ url \in {<<"https://", "www.", "youtube.com">>, PlaylistOnly}

\* C18: for a reference without a recognizable identifier extract_video_id
\* returns None, is_valid_url is false and validate_url raises ValueError;
\* for every reference validate_url raises exactly when extract_video_id
\* returns None.
C18_RejectUnrecognizable ==
    call.op = "validate_url"
    => /\ NoIdentifier(call.video_url)
          => /\ call.extracted = Absent
             /\ ~call.valid
             /\ call.outcome.kind = "raise"
       /\ (call.outcome.kind = "raise") <=> (call.extracted = Absent)

(***************************************************************************)
(* Properties of POST /api/summarize (specification SpecWeb).              *)
(***************************************************************************)
ClientError == 400..499
ServerError == 500..599

\* the body carries a reference
HasReference(body) ==
    body.kind = "object" /\ body.video_url # Absent /\ body.video_url # Some(<< >>)

\* C19: a body without video_url is answered with a 4xx status, a body with
\* an invalid reference with 4xx, every failure of a request with a valid
\* reference (transcript source, backend, persistence, anything unexpected)
\* with 5xx, and every error response carries an error message.
C19_StatusMapping ==
    call.op = "api_summarize"
    => /\ ~HasReference(call.body) => call.response.status \in ClientError
       /\ (HasReference(call.body) /\ ~is_valid_url(call.body.video_url[1]))
          => call.response.status \in ClientError
       /\ (HasReference(call.body) /\ is_valid_url(call.body.video_url[1])
             /\ call.response.status # 200)
          => call.response.status \in ServerError
       /\ call.response.status # 200 => call.response.payload.error # << >>

(***************************************************************************)
(* Properties of concurrent calls (specification SpecConcurrent).          *)
(***************************************************************************)
\* C20: two concurrent first calls of summarize_video for the same valid
\* reference, with save_to_file, both end without an error, and at least
\* one and at most two summary files exist for the video when both have
\* ended (one written by each call when both passed the check for a cached
\* summary before either wrote).
C20_ConcurrentFirstCalls ==
    (call.op = "concurrent" /\ call.pc = "done"
       /\ is_valid_url(call.video_url)
       /\ (call.max_tokens = Absent \/ call.max_tokens[1] > 0)
       /\ call.save_to_file)
    => /\ \A r \in Requests : call.outcome[r].kind = "return"
       /\ Cardinality(PersistedFor(extract_video_id(call.video_url))) \in 1..2

C22_PersistThenLocate ==
    (call.op = "get_summary_path" /\ PersistedFor(call.video_id) # {})
    => /\ call.outcome.value # Absent
       /\ call.outcome.value[1] \in PersistedFor(call.video_id)
       /\ \A m \in PersistedFor(call.video_id) :
             m.timestamp <= call.outcome.value[1].timestamp
(***************************************************************************)
(* Properties of the transcript cache across calls of get_transcript       *)
(* (specification SpecTranscript).                                         *)
(***************************************************************************)
\* the languages under which a transcript of the video is stored
StoredLanguages(video_id) ==
    { l \in Languages :
        FileCondition(transcriptCache, video_id, l) = "document" }

\* the text stored for (video_id, language)
StoredText(video_id, language) ==
    transcriptCache[get_cache_path(video_id, language)][1].doc[1].transcript

\* C23: a get_transcript call for a video with a transcript stored under a
\* language L, requesting L or requesting no language, ends at once with
\* the stored text of L and does not call the provider: no list_transcripts
\* and no fetch.  (call.saved = "none": the call has not written the cache,
\* so the files are those it found.)
C23_CacheBeforeNetwork ==
    (call.op = "get_transcript" /\ call.saved = "none")
    => LET stored == StoredLanguages(call.video_id)
           hits == IF call.requested = None THEN stored
                   ELSE stored \cap {call.requested}
       IN hits # {}
          => /\ call.pc = "done"
             /\ ~call.listed
             /\ call.attempts = 0
             /\ \E l \in hits :
                   call.outcome =
                     Return(<<call.video_id, l, StoredText(call.video_id, l)>>)

\* C24: a cache file that holds a transcript keeps it as long as the file
\* exists: no step of get_transcript changes the stored text, whatever the
\* provider returns later for the same video and language.
C24_TranscriptRecordImmutable ==
    [][\A video_id \in VideoIds, l \in Languages :
          (l \in StoredLanguages(video_id)
             /\ transcriptCache'[get_cache_path(video_id, l)] # Absent)
          => transcriptCache'[get_cache_path(video_id, l)] =
                transcriptCache[get_cache_path(video_id, l)]]_vars
====
